---- MODULE Spec2Model ----
(***************************************************************************)
(* Accessories Sales Dashboard (src/app_enhanced.py): the load of the      *)
(* workbook at import time, the filter, the totals, and the request        *)
(* handlers get_stats, get_filter_options, get_data, export_excel and      *)
(* health_check.                                                           *)
(*                                                                         *)
(* Strings are sequences of atoms: an atom is one whitespace character     *)
(* (" " or "\t") or one word.  A float is an integer number of halves      *)
(* (Flt(3) is 1.5) or the infinity Inf; an int is a whole number.          *)
(***************************************************************************)
EXTENDS Integers, Sequences, FiniteSets, TLC

VARIABLES
    file,       \* the workbook on disk: exists, headers, rows
    pc,         \* "import" while the module body runs, then "serving"
    df,         \* the global DataFrame: columns and rows (positional)
    quarters,   \* the four global option lists
    months,
    locations,
    models,
    resp        \* the response a handler is returning (NoResp: none)

vars == <<file, pc, df, quarters, months, locations, models, resp>>

(***************************************************************************)
(* Bounds of the model                                                     *)
(***************************************************************************)
MaxRows == 2

(***************************************************************************)
(* Values: cells of a sheet or of a DataFrame, totals                      *)
(***************************************************************************)
Str(s) == [k |-> "str", s |-> s, n |-> 0]
NaN == [k |-> "nan", s |-> <<>>, n |-> 0]
Flt(h) == [k |-> "float", s |-> <<>>, n |-> h]
Inf == [k |-> "inf", s |-> <<>>, n |-> 0]
IntV(n) == [k |-> "int", s |-> <<>>, n |-> n]
None == [k |-> "none", s |-> <<>>, n |-> 0]

Range(f) == {f[i] : i \in DOMAIN f}

(***************************************************************************)
(* Strings                                                                 *)
(***************************************************************************)
Whitespace == {" ", "\t"}

\* The atoms in ascending order of Python's string comparison.
CodeOrder ==
    <<"\t", " ", "Apr", "Foo", "Jan", "May", "North", "Q1", "Q2", "South",
      "X", "Y", "inf", "nan", "ok">>

Rank(a) ==
    IF a \in Range(CodeOrder)
    THEN CHOOSE i \in DOMAIN CodeOrder : CodeOrder[i] = a
    ELSE Len(CodeOrder) + 1

RECURSIVE StrLess(_, _)
StrLess(a, b) ==
    IF b = <<>> THEN FALSE
    ELSE IF a = <<>> THEN TRUE
    ELSE IF Head(a) = Head(b) THEN StrLess(Tail(a), Tail(b))
    ELSE Rank(Head(a)) < Rank(Head(b))

RECURSIVE lstrip(_)
lstrip(s) ==
    IF s # <<>> /\ Head(s) \in Whitespace THEN lstrip(Tail(s)) ELSE s

RECURSIVE rstrip(_)
rstrip(s) ==
    IF s # <<>> /\ s[Len(s)] \in Whitespace
    THEN rstrip(SubSeq(s, 1, Len(s) - 1))
    ELSE s

\* str.strip()
strip(s) == rstrip(lstrip(s))

\* str.replace("\t", " ")
replace_tab(s) == [i \in DOMAIN s |-> IF s[i] = "\t" THEN " " ELSE s[i]]

\* str.split(): the words between runs of whitespace
RECURSIVE split(_)
split(s) ==
    LET t == lstrip(s) IN
    IF t = <<>> THEN <<>>
    ELSE LET n == IF \E i \in DOMAIN t : t[i] \in Whitespace
                  THEN (CHOOSE i \in DOMAIN t :
                            /\ t[i] \in Whitespace
                            /\ \A j \in 1..(i - 1) : t[j] \notin Whitespace) - 1
                  ELSE Len(t)
         IN <<SubSeq(t, 1, n)>> \o split(SubSeq(t, n + 1, Len(t)))

\* " ".join(words)
RECURSIVE join(_)
join(words) ==
    IF words = <<>> THEN <<>>
    ELSE IF Len(words) = 1 THEN words[1]
    ELSE words[1] \o <<" ">> \o join(Tail(words))

_clean_col_name(c) == join(split(strip(replace_tab(c))))

\* A string written as its words, single spaces between them.
W(words) == join([i \in DOMAIN words |-> <<words[i]>>])

(***************************************************************************)
(* Column names                                                            *)
(***************************************************************************)
FiscalQuarter == W(<<"Fiscal", "Quarter">>)
FiscalMonth == W(<<"Fiscal", "Month">>)
Location == W(<<"Location">>)
ModelGroup == W(<<"Model", "Group">>)

NUMERIC_COLS ==
    << W(<<"No", "of", "Billied", "Ros">>),
       W(<<"Acc", "Sale", "throughROs", "(GNDP)In", "Rs">>),
       W(<<"Acc", "Sale", "throughROs", "(MRP)", "In", "Rs">>),
       W(<<"No", "of", "Counter", "ROs">>),
       W(<<"Acc", "Sale", "throughCounter", "(GNDP)", "In", "Rs">>),
       W(<<"Acc", "Sale", "throughCounter", "(MRP)", "In", "Rs">>),
       W(<<"Acc", "Revenue", "(GNDP)", "/", "RO">>),
       W(<<"Acc", "Revenue", "(MRP)", "/", "RO">>) >>

NoOfBilliedRos == NUMERIC_COLS[1]
NoOfCounterROs == NUMERIC_COLS[4]

required == <<FiscalQuarter, FiscalMonth, Location, ModelGroup>>

\* The dict CANON_COLS: every known header maps to itself.
CANON_COLS == [c \in Range(required) \cup Range(NUMERIC_COLS) |-> c]

INDIAN_FINANCIAL_MONTHS ==
    << <<"Apr">>, <<"May">>, <<"Jun">>, <<"Jul">>, <<"Aug">>, <<"Sep">>,
       <<"Oct">>, <<"Nov">>, <<"Dec">>, <<"Jan">>, <<"Feb">>, <<"Mar">> >>

(***************************************************************************)
(* DataFrames: a sequence of column names and a sequence of rows, each row *)
(* a sequence of cells in column order                                     *)
(***************************************************************************)
EmptyFrame == [columns |-> <<>>, rows |-> <<>>]

\* DataFrame.empty: some axis has length 0
IsEmpty(d) == Len(d.columns) = 0 \/ Len(d.rows) = 0

HasCol(d, c) == c \in Range(d.columns)

ColIdx(d, c) == CHOOSE i \in DOMAIN d.columns : d.columns[i] = c

\* d[c]: the cells of column c, in row order
Column(d, c) == [r \in DOMAIN d.rows |-> d.rows[r][ColIdx(d, c)]]

\* Series.astype(str): text stays, a missing cell becomes the text "nan".
\* (The categorical cells of the workbooks below are text or missing.)
astype_str(c) ==
    CASE c.k = "str" -> c.s
      [] c.k = "nan" -> <<"nan">>

\* .astype(str).str.strip()
AsStrippedStr(c) == Str(strip(astype_str(c)))

\* pd.to_numeric(errors="coerce"): a number stays, the text "inf" parses to
\* infinity, any other text and a missing cell become NaN
to_numeric(c) ==
    CASE c.k = "float" -> c
      [] c.k = "inf" -> c
      [] c.k = "str" -> IF c.s = <<"inf">> THEN Inf ELSE NaN
      [] c.k = "nan" -> NaN

\* .fillna(0)
fillna0(c) == IF c.k = "nan" THEN Flt(0) ELSE c

ToNumericFilled(c) == fillna0(to_numeric(c))

\* _df[c] = _df[c].astype(str).str.strip()
StripColumn(d, c) ==
    [d EXCEPT !.rows =
        [r \in DOMAIN d.rows |->
            [j \in DOMAIN d.rows[r] |->
                IF j = ColIdx(d, c) THEN AsStrippedStr(d.rows[r][j])
                ELSE d.rows[r][j]]]]

\* _df[c] = pd.to_numeric(_df[c], errors="coerce").fillna(0)
NumericColumn(d, c) ==
    [d EXCEPT !.rows =
        [r \in DOMAIN d.rows |->
            [j \in DOMAIN d.rows[r] |->
                IF j = ColIdx(d, c) THEN ToNumericFilled(d.rows[r][j])
                ELSE d.rows[r][j]]]]

(***************************************************************************)
(* Lists                                                                   *)
(***************************************************************************)
\* Series.unique().tolist(): the distinct values in order of first appearance
RECURSIVE unique(_)
unique(xs) ==
    IF xs = <<>> THEN <<>>
    ELSE LET init == unique(SubSeq(xs, 1, Len(xs) - 1))
             last == xs[Len(xs)]
         IN IF last \in Range(init) THEN init ELSE Append(init, last)

\* [x for x in xs if x != "nan"]
not_nan(xs) == SelectSeq(xs, LAMBDA x : x # <<"nan">>)

\* Insert x into the sorted list ys after every element not greater than it.
RECURSIVE InsertStr(_, _)
InsertStr(x, ys) ==
    IF ys = <<>> THEN <<x>>
    ELSE IF StrLess(x, Head(ys)) THEN <<x>> \o ys
    ELSE <<Head(ys)>> \o InsertStr(x, Tail(ys))

\* sorted(xs) on strings (a stable sort)
RECURSIVE sorted(_)
sorted(xs) ==
    IF xs = <<>> THEN <<>>
    ELSE InsertStr(xs[Len(xs)], sorted(SubSeq(xs, 1, Len(xs) - 1)))

\* month_key with 0 where the code has 999
month_key_unknown_first(x) ==
    IF x \in Range(INDIAN_FINANCIAL_MONTHS)
    THEN (CHOOSE i \in DOMAIN INDIAN_FINANCIAL_MONTHS :
              INDIAN_FINANCIAL_MONTHS[i] = x) - 1
    ELSE 0

\* INDIAN_FINANCIAL_MONTHS.index(x) if x in INDIAN_FINANCIAL_MONTHS else 999
\* (list.index counts from 0)
month_key(x) ==
    IF x \in Range(INDIAN_FINANCIAL_MONTHS)
    THEN (CHOOSE i \in DOMAIN INDIAN_FINANCIAL_MONTHS :
              INDIAN_FINANCIAL_MONTHS[i] = x) - 1
    ELSE 999

RECURSIVE InsertMonth(_, _)
InsertMonth(x, ys) ==
    IF ys = <<>> THEN <<x>>
    ELSE IF month_key(x) < month_key(Head(ys)) THEN <<x>> \o ys
    ELSE <<Head(ys)>> \o InsertMonth(x, Tail(ys))

\* sorted(xs, key=month_key) (a stable sort)
RECURSIVE sorted_months(_)
sorted_months(xs) ==
    IF xs = <<>> THEN <<>>
    ELSE InsertMonth(xs[Len(xs)], sorted_months(SubSeq(xs, 1, Len(xs) - 1)))

\* _df[c].dropna().unique().tolist() without "nan"; after astype(str) no cell
\* is missing, so dropna() drops nothing
option_values(d, c) ==
    not_nan(unique([r \in DOMAIN d.rows |-> Column(d, c)[r].s]))

(***************************************************************************)
(* load_excel                                                              *)
(***************************************************************************)
\* pd.read_excel: the header row names the columns, the other rows are data
read_excel(f) == [columns |-> f.headers, rows |-> f.rows]

\* _df.columns = [_clean_col_name(c) ...]; _df.rename(columns=rename_map)
normalize_columns(d) ==
    [d EXCEPT !.columns =
        [i \in DOMAIN d.columns |->
            LET c == _clean_col_name(d.columns[i])
            IN IF c \in DOMAIN CANON_COLS THEN CANON_COLS[c] ELSE c]]

MissingRequired(d) == \E i \in DOMAIN required : ~HasCol(d, required[i])

\* the four .astype(str).str.strip() assignments
convert_filters(d) ==
    StripColumn(StripColumn(StripColumn(StripColumn(d,
        FiscalQuarter), FiscalMonth), Location), ModelGroup)

\* for c in NUMERIC_COLS: if c in _df.columns: to_numeric(...).fillna(0)
RECURSIVE convert_numeric(_, _)
convert_numeric(d, i) ==
    IF i > Len(NUMERIC_COLS) THEN d
    ELSE convert_numeric(
             IF HasCol(d, NUMERIC_COLS[i])
             THEN NumericColumn(d, NUMERIC_COLS[i])
             ELSE d,
             i + 1)

\* The outcome of load_excel(): it raised, or it returned a frame; the four
\* global lists are assigned only when the end of the function is reached.
NoOptions ==
    [quarters |-> <<>>, months |-> <<>>, locations |-> <<>>, models |-> <<>>]

options_of(d) ==
    [quarters |-> sorted(option_values(d, FiscalQuarter)),
     months |-> sorted_months(option_values(d, FiscalMonth)),
     locations |-> sorted(option_values(d, Location)),
     models |-> sorted(option_values(d, ModelGroup))]

load_excel(f) ==
    IF ~f.exists
    THEN [raised |-> FALSE, frame |-> EmptyFrame, assigned |-> FALSE,
          options |-> NoOptions]
    ELSE IF f.corrupt
    THEN [raised |-> TRUE, frame |-> EmptyFrame, assigned |-> FALSE,
          options |-> NoOptions]
    ELSE LET named == normalize_columns(read_excel(f)) IN
         IF MissingRequired(named)
         THEN [raised |-> TRUE, frame |-> EmptyFrame, assigned |-> FALSE,
               options |-> NoOptions]
         ELSE LET d == convert_numeric(convert_filters(named), 1) IN
              [raised |-> FALSE, frame |-> d, assigned |-> TRUE,
               options |-> options_of(d)]

(***************************************************************************)
(* apply_filter                                                            *)
(***************************************************************************)
\* An Optional[str] field of FilterRequest
Some(s) == [none |-> FALSE, s |-> s]
Absent == [none |-> TRUE, s |-> <<>>]

\* Constrains without the test of req.x.strip()
Constrains_no_strip(x) == ~x.none /\ x.s # <<>>

\* "req.x and req.x.strip()": the field is given, not empty, and not blank
Constrains(x) == ~x.none /\ x.s # <<>> /\ strip(x.s) # <<>>

\* f[f[c].astype(str) == v]
filter_eq(f, c, v) ==
    [f EXCEPT !.rows =
        SelectSeq(f.rows, LAMBDA r : astype_str(r[ColIdx(f, c)]) = v)]

filter_step(f, c, x) ==
    IF Constrains(x) THEN filter_eq(f, c, strip(x.s)) ELSE f

\* apply_filter without its last step, the filter on Model Group
apply_filter_no_model(d, req) ==
    filter_step(filter_step(filter_step(d,
        FiscalQuarter, req.quarter),
        FiscalMonth, req.month),
        Location, req.location)

apply_filter(d, req) ==
    filter_step(filter_step(filter_step(filter_step(d,
        FiscalQuarter, req.quarter),
        FiscalMonth, req.month),
        Location, req.location),
        ModelGroup, req.model)

(***************************************************************************)
(* compute_totals                                                          *)
(***************************************************************************)
\* float addition: infinity absorbs
fadd(a, b) == IF a.k = "inf" \/ b.k = "inf" THEN Inf ELSE Flt(a.n + b.n)

RECURSIVE fsum(_)
fsum(cells) ==
    IF cells = <<>> THEN Flt(0)
    ELSE fadd(fsum(SubSeq(cells, 1, Len(cells) - 1)), cells[Len(cells)])

\* _df[c].sum()
column_sum(d, c) == fsum(Column(d, c))

\* int(x) truncates toward zero; int(inf) raises OverflowError
int_raises(x) == x.k = "inf"

int_of(x) ==
    IF x.n >= 0 THEN IntV(x.n \div 2) ELSE IntV(-((-x.n) \div 2))

count_total(d, c) ==
    IF HasCol(d, c) THEN int_of(column_sum(d, c)) ELSE IntV(0)

\* The outcome of compute_totals(_df): it raised, or it returned the dict.
compute_totals(d) ==
    LET floats == [c \in Range(NUMERIC_COLS) |->
                      IF HasCol(d, c) THEN column_sum(d, c) ELSE Flt(0)]
        raised == \E c \in {NoOfBilliedRos, NoOfCounterROs} :
                      HasCol(d, c) /\ int_raises(column_sum(d, c))
    IN [raised |-> raised,
        totals |->
            IF raised THEN floats
            ELSE [floats EXCEPT
                     ![NoOfBilliedRos] = count_total(d, NoOfBilliedRos),
                     ![NoOfCounterROs] = count_total(d, NoOfCounterROs)]]

(***************************************************************************)
(* Responses                                                               *)
(***************************************************************************)
NoTotals == [c \in {} |-> None]

NoRequest ==
    [quarter |-> Absent, month |-> Absent, location |-> Absent,
     model |-> Absent]

NoResp ==
    [op |-> "none", status |-> 0, detail |-> "", req |-> NoRequest,
     fault |-> FALSE,
     columns |-> <<>>, data |-> <<>>, totals |-> NoTotals, count |-> 0,
     sheet |-> <<>>, styles |-> <<>>, stats |-> <<>>,
     options |-> NoOptions]

Failure(op, req, status, detail) ==
    [NoResp EXCEPT !.op = op, !.req = req, !.status = status,
                   !.detail = detail]

(***************************************************************************)
(* get_stats, get_filter_options, health_check, get_data                   *)
(***************************************************************************)
\* The five counts of /api/stats, in the order of the dict.
get_stats(d, qs, ms, ls, gs) ==
    [NoResp EXCEPT !.op = "get_stats", !.status = 200,
        !.stats = <<IF ~IsEmpty(d) THEN Len(d.rows) ELSE 0,
                    Len(qs), Len(ms), Len(ls), Len(gs)>>]

get_filter_options(qs, ms, ls, gs) ==
    [NoResp EXCEPT !.op = "get_filter_options", !.status = 200,
        !.options = [quarters |-> qs, months |-> ms,
                     locations |-> ls, models |-> gs]]

health_check == [NoResp EXCEPT !.op = "health_check", !.status = 200,
                               !.detail = "ok"]

\* get_data answering an empty table with an empty totals dict
get_data_empty_totals(d, req) ==
    IF IsEmpty(d)
    THEN [NoResp EXCEPT !.op = "get_data", !.req = req, !.status = 200]
    ELSE LET filtered_df == apply_filter(d, req)
             t == compute_totals(filtered_df)
         IN IF t.raised
            THEN Failure("get_data", req, 500, "Internal Server Error")
            ELSE [NoResp EXCEPT !.op = "get_data", !.req = req, !.status = 200,
                     !.columns = filtered_df.columns,
                     !.data = filtered_df.rows,
                     !.totals = t.totals,
                     !.count = Len(filtered_df.rows)]

\* get_data counting the rows of the table, not of the filtered frame
get_data_count_all(d, req) ==
    IF IsEmpty(d)
    THEN LET t == compute_totals([columns |-> NUMERIC_COLS, rows |-> <<>>]) IN
         [NoResp EXCEPT !.op = "get_data", !.req = req, !.status = 200,
                        !.totals = t.totals]
    ELSE LET filtered_df == apply_filter(d, req)
             t == compute_totals(filtered_df)
         IN IF t.raised
            THEN Failure("get_data", req, 500, "Internal Server Error")
            ELSE [NoResp EXCEPT !.op = "get_data", !.req = req, !.status = 200,
                     !.columns = filtered_df.columns,
                     !.data = filtered_df.rows,
                     !.totals = t.totals,
                     !.count = Len(d.rows)]

\* An exception that escapes a handler is answered with status 500.
get_data(d, req) ==
    IF IsEmpty(d)
    THEN LET t == compute_totals([columns |-> NUMERIC_COLS, rows |-> <<>>]) IN
         IF t.raised THEN Failure("get_data", req, 500, "Internal Server Error")
         ELSE [NoResp EXCEPT !.op = "get_data", !.req = req, !.status = 200,
                             !.totals = t.totals]
    ELSE LET filtered_df == apply_filter(d, req)
             t == compute_totals(filtered_df)
         IN IF t.raised THEN Failure("get_data", req, 500, "Internal Server Error")
            ELSE [NoResp EXCEPT !.op = "get_data", !.req = req, !.status = 200,
                     !.columns = filtered_df.columns,
                     !.data = filtered_df.rows,
                     !.totals = t.totals,
                     !.count = Len(filtered_df.rows)]

(***************************************************************************)
(* export_excel                                                            *)
(***************************************************************************)
Max(a, b) == IF a >= b THEN a ELSE b

BlankRow(width) == [j \in 1..width |-> None]

\* DataFrame.to_excel(startrow=startrow, header=False): the rows are written
\* to the sheet rows startrow + 1, startrow + 2, ... (startrow counts from 0,
\* sheet rows from 1); rows of the sheet not written stay blank
write_rows(sheet, rows, startrow, width) ==
    [i \in 1..Max(Len(sheet), startrow + Len(rows)) |->
        IF startrow < i /\ i <= startrow + Len(rows) THEN rows[i - startrow]
        ELSE IF i <= Len(sheet) THEN sheet[i]
        ELSE BlankRow(width)]

\* The value to_excel writes for a cell: "" (na_rep) for a missing value,
\* "inf" (inf_rep) for infinity, the value itself otherwise
format_value(c) ==
    IF c.k = "nan" THEN Str(<<>>)
    ELSE IF c.k = "inf" THEN Str(<<"inf">>)
    ELSE c

excel_rows(rows) ==
    [i \in DOMAIN rows |-> [j \in DOMAIN rows[i] |-> format_value(rows[i][j])]]

\* filtered_df.to_excel(index=False): the header row, then the rows
to_excel(f) ==
    write_rows(<<[j \in DOMAIN f.columns |-> Str(f.columns[j])]>>,
               excel_rows(f.rows), 1, Len(f.columns))

\* totals_row: "" everywhere, "TOTAL" under Fiscal Quarter, the total under
\* each numeric column of the frame
totals_row(f, totals) ==
    [j \in DOMAIN f.columns |->
        IF f.columns[j] \in Range(NUMERIC_COLS) THEN totals[f.columns[j]]
        ELSE IF f.columns[j] = FiscalQuarter THEN Str(<<"TOTAL">>)
        ELSE Str(<<>>)]

\* start_row one row further down
start_row_blank(n) == n + 3

\* start_row = len(filtered_df) + 2
start_row(n) == n + 2

\* totals_excel_row = len(filtered_df) + 2
totals_excel_row(n) == n + 2

\* The cell styles by sheet row: ws[1] is the header, rows 2..n+1 are data
\* rows, ws[totals_excel_row] gets the bold font and the light fill.
styles_of(sheet, n) ==
    [i \in 1..Max(Len(sheet), totals_excel_row(n)) |->
        IF i = totals_excel_row(n) THEN "totals"
        ELSE IF i = 1 THEN "header"
        ELSE IF i <= n + 1 THEN "data"
        ELSE "none"]

\* fault: the writer raised while the workbook was rendered
export_excel(d, req, fault) ==
    IF IsEmpty(d) THEN Failure("export_excel", req, 400, "No data loaded")
    ELSE LET filtered_df == apply_filter(d, req)
             n == Len(filtered_df.rows)
             t == compute_totals(filtered_df)
             sheet == write_rows(to_excel(filtered_df),
                                 excel_rows(<<totals_row(filtered_df, t.totals)>>),
                                 start_row(n) - 1,
                                 Len(filtered_df.columns))
         IN IF t.raised \/ fault
            THEN [Failure("export_excel", req, 500, "Export failed")
                     EXCEPT !.fault = fault]
            ELSE [NoResp EXCEPT !.op = "export_excel", !.req = req,
                     !.status = 200,
                     !.detail = "accessories_sales_filtered.xlsx",
                     !.columns = filtered_df.columns,
                     !.sheet = sheet,
                     !.styles = styles_of(sheet, n)]

(***************************************************************************)
(* The workbooks and the requests of the model                             *)
(***************************************************************************)
Num(i) == NUMERIC_COLS[i]

\* A layout is the header row as written in the workbook; each header names
\* the field of a record (1..4 the filter fields, 5..12 the numeric fields,
\* 13 a column the program does not know) its column holds.
CanonicalLayout ==
    << [h |-> FiscalQuarter, f |-> 1], [h |-> FiscalMonth, f |-> 2],
       [h |-> Location, f |-> 3], [h |-> ModelGroup, f |-> 4],
       [h |-> Num(1), f |-> 5], [h |-> Num(2), f |-> 6],
       [h |-> Num(3), f |-> 7], [h |-> Num(4), f |-> 8],
       [h |-> Num(5), f |-> 9], [h |-> Num(6), f |-> 10],
       [h |-> Num(7), f |-> 11], [h |-> Num(8), f |-> 12] >>

\* Other column order, untidy whitespace in the headers, one more column.
ShuffledLayout ==
    << [h |-> <<"Notes">>, f |-> 13],
       [h |-> <<" ", "Location">>, f |-> 3],
       [h |-> Num(8), f |-> 12], [h |-> Num(7), f |-> 11],
       [h |-> <<"No", " ", "of", " ", " ", "Billied", "\t", "Ros", " ">>,
        f |-> 5],
       [h |-> <<"Model", " ", " ", "Group">>, f |-> 4],
       [h |-> Num(2), f |-> 6], [h |-> Num(3), f |-> 7],
       [h |-> Num(4), f |-> 8],
       [h |-> <<"Fiscal", "\t", "Month">>, f |-> 2],
       [h |-> Num(5), f |-> 9], [h |-> Num(6), f |-> 10],
       [h |-> <<"Fiscal", " ", "Quarter", " ">>, f |-> 1] >>

\* No "No of Counter ROs" column.
NoCounterLayout == SelectSeq(CanonicalLayout, LAMBDA e : e.f # 8)

\* "ModelGroup" where "Model Group" is required.
NoModelLayout ==
    [i \in DOMAIN CanonicalLayout |->
        IF CanonicalLayout[i].f = 4
        THEN [h |-> <<"ModelGroup">>, f |-> 4]
        ELSE CanonicalLayout[i]]

Layouts == {CanonicalLayout, ShuffledLayout, NoCounterLayout, NoModelLayout}

\* The records a workbook is made of: fields 1..13.
Records ==
    { << Str(<<"Q1">>), Str(<<"Apr">>), Str(<<"North">>), Str(<<"X">>),
         Flt(10), Flt(200), Flt(240), Flt(4), Flt(80), Flt(100), Flt(40),
         Flt(48), Str(<<"ok">>) >>,
      << Str(<<"Q1", " ">>), Str(<<" ", "May">>), Str(<<"South">>),
         Str(<<"Y">>),
         Flt(6), Flt(101), Flt(120), Flt(3), Flt(41), Flt(50), Flt(33),
         Flt(40), NaN >>,
      << Str(<<" ">>), Str(<<"Foo">>), NaN, Str(<<"X">>),
         Str(<<"TBD">>), NaN, Flt(7), Flt(-1), Flt(-5), Str(<<"TBD">>),
         Flt(0), Flt(2), Str(<<"ok">>) >>,
      << Str(<<"Q2">>), Str(<<"Jan">>), Str(<<"North">>), Str(<<"Y">>),
         Str(<<"inf">>), Flt(20), Flt(24), Flt(2), Flt(8), Flt(10), Flt(20),
         Flt(24), NaN >> }

RECURSIVE SeqsUpTo(_, _)
SeqsUpTo(S, n) ==
    IF n = 0 THEN {<<>>}
    ELSE LET shorter == SeqsUpTo(S, n - 1)
         IN shorter \cup {Append(q, x) : q \in shorter, x \in S}

Workbook(layout, records) ==
    [exists |-> TRUE, corrupt |-> FALSE,
     headers |-> [j \in DOMAIN layout |-> layout[j].h],
     rows |-> [r \in DOMAIN records |->
                  [j \in DOMAIN layout |-> records[r][layout[j].f]]]]

NoFile == [exists |-> FALSE, corrupt |-> FALSE, headers |-> <<>>, rows |-> <<>>]

CorruptFile == [NoFile EXCEPT !.exists = TRUE, !.corrupt = TRUE]

Workbooks ==
    {NoFile, CorruptFile}
        \cup {Workbook(l, rs) : l \in Layouts, rs \in SeqsUpTo(Records, MaxRows)}

Requests ==
    [quarter : {Absent, Some(<<"Q1">>), Some(<<" ", "Q1", " ">>),
                Some(<<"Q2">>)},
     month : {Some(<<>>), Some(<<"May", " ">>)},
     location : {Some(<<" ">>), Some(<<"North", "\t">>)},
     model : {Absent, Some(<<"X">>)}]

(***************************************************************************)
(* The program                                                             *)
(***************************************************************************)
\* The module body up to the load: df = pd.DataFrame(), the four lists [].
Init ==
    /\ file \in Workbooks
    /\ pc = "import"
    /\ df = EmptyFrame
    /\ quarters = <<>>
    /\ months = <<>>
    /\ locations = <<>>
    /\ models = <<>>
    /\ resp = NoResp

\* try: df = load_excel()  except Exception: df = pd.DataFrame()
\* The routes are served once the module body has run.
LoadExcel ==
    /\ pc = "import"
    /\ LET r == load_excel(file) IN
        /\ df' = IF r.raised THEN EmptyFrame ELSE r.frame
        /\ quarters' = IF r.assigned THEN r.options.quarters ELSE quarters
        /\ months' = IF r.assigned THEN r.options.months ELSE months
        /\ locations' = IF r.assigned THEN r.options.locations ELSE locations
        /\ models' = IF r.assigned THEN r.options.models ELSE models
    /\ pc' = "serving"
    /\ UNCHANGED <<file, resp>>

\* GET /api/stats
GetStats ==
    /\ pc = "serving"
    /\ resp = NoResp
    /\ resp' = get_stats(df, quarters, months, locations, models)
    /\ UNCHANGED <<file, pc, df, quarters, months, locations, models>>

\* GET /api/filter-options
GetFilterOptions ==
    /\ pc = "serving"
    /\ resp = NoResp
    /\ resp' = get_filter_options(quarters, months, locations, models)
    /\ UNCHANGED <<file, pc, df, quarters, months, locations, models>>

\* GET /api/health
HealthCheck ==
    /\ pc = "serving"
    /\ resp = NoResp
    /\ resp' = health_check
    /\ UNCHANGED <<file, pc, df, quarters, months, locations, models>>

\* GetData assigning the filtered frame to the global df
GetData_in_place ==
    /\ pc = "serving"
    /\ resp = NoResp
    /\ \E req \in Requests :
           /\ resp' = get_data(df, req)
           /\ df' = IF IsEmpty(df) THEN df ELSE apply_filter(df, req)
    /\ UNCHANGED <<file, pc, quarters, months, locations, models>>

\* POST /api/get-data
GetData ==
    /\ pc = "serving"
    /\ resp = NoResp
    /\ \E req \in Requests : resp' = get_data(df, req)
    /\ UNCHANGED <<file, pc, df, quarters, months, locations, models>>

\* POST /api/export-excel
ExportExcel ==
    /\ pc = "serving"
    /\ resp = NoResp
    /\ \E req \in Requests, fault \in BOOLEAN :
           resp' = export_excel(df, req, fault)
    /\ UNCHANGED <<file, pc, df, quarters, months, locations, models>>

\* The response leaves the handler; the next request can be looked at.
Return ==
    /\ pc = "serving"
    /\ resp # NoResp
    /\ resp' = NoResp
    /\ UNCHANGED <<file, pc, df, quarters, months, locations, models>>

Next ==
    \/ LoadExcel
    \/ GetStats
    \/ GetFilterOptions
    \/ HealthCheck
    \/ GetData
    \/ ExportExcel
    \/ Return

Spec == Init /\ [][Next]_vars

(***************************************************************************)
(* Properties                                                              *)
(***************************************************************************)
Answered(op) == resp.op = op /\ resp.status = 200

\* A criterion is blank when it is absent, empty or whitespace only.
NonBlank(x) == ~x.none /\ \E i \in DOMAIN x.s : x.s[i] \notin Whitespace

\* The text of column c in a row laid out by cols.
Field(cols, row, c) == row[CHOOSE i \in DOMAIN cols : cols[i] = c].s

\* The four criteria of a request with the columns they constrain.
Criteria(req) ==
    { <<req.quarter, FiscalQuarter>>, <<req.month, FiscalMonth>>,
      <<req.location, Location>>, <<req.model, ModelGroup>> }

\* The row meets every non-blank criterion of req, each trimmed.
Matches(cols, row, req) ==
    \A p \in Criteria(req) :
        NonBlank(p[1]) => Field(cols, row, p[2]) = strip(p[1].s)

\* The rows of the table that req selects, in table order.
Selected(req) ==
    SelectSeq(df.rows, LAMBDA row : Matches(df.columns, row, req))

\* C1 (as stated): every row that get_data returns has, for each non-blank
\* criterion of the request, a field equal to the criterion exactly as
\* given, leading and trailing whitespace included.
C1_ExactMatch ==
    Answered("get_data") =>
        \A i \in DOMAIN resp.data : \A p \in Criteria(resp.req) :
            NonBlank(p[1]) => Field(resp.columns, resp.data[i], p[2]) = p[1].s

\* C1 (amended): every row that get_data returns has, for each non-blank
\* criterion of the request, a field equal to the criterion with its
\* leading and trailing whitespace removed.
C1_TrimmedMatch ==
    Answered("get_data") =>
        \A i \in DOMAIN resp.data : \A p \in Criteria(resp.req) :
            NonBlank(p[1]) =>
                Field(resp.columns, resp.data[i], p[2]) = strip(p[1].s)

\* A padded quarter and a model were asked for, and rows came back.
C1_Witness ==
    /\ Answered("get_data")
    /\ resp.data # <<>>
    /\ NonBlank(resp.req.quarter)
    /\ resp.req.quarter.s # strip(resp.req.quarter.s)
    /\ NonBlank(resp.req.model)

\* C2: get_data returns the subsequence of the table, in load order, of all
\* the rows that meet every non-blank criterion (trimmed) of the request;
\* with the four criteria blank it returns the whole table.
C2_SelectIsSubsequence ==
    Answered("get_data") =>
        /\ resp.data = Selected(resp.req)
        /\ (\A p \in Criteria(resp.req) : ~NonBlank(p[1])) =>
               resp.data = df.rows

\* Two criteria were given next to a whitespace-only one, the table has two
\* rows, and one of them was selected.
C2_Witness ==
    /\ Answered("get_data")
    /\ Len(df.rows) = 2
    /\ Len(resp.data) = 1
    /\ NonBlank(resp.req.quarter)
    /\ NonBlank(resp.req.month)
    /\ resp.req.location = Some(<<" ">>)

\* The financial year, April first.
FinancialYear ==
    << <<"Apr">>, <<"May">>, <<"Jun">>, <<"Jul">>, <<"Aug">>, <<"Sep">>,
       <<"Oct">>, <<"Nov">>, <<"Dec">>, <<"Jan">>, <<"Feb">>, <<"Mar">> >>

PlaceInYear(m) == CHOOSE i \in DOMAIN FinancialYear : FinancialYear[i] = m

\* C7: in the months list, of two months of the financial year the earlier
\* one comes first, and no value outside the financial year comes before a
\* month of it; Jan, Apr, Dec, Foo is listed as Apr, Dec, Jan, Foo.
C7_MonthsInFinancialOrder ==
    /\ sorted_months(<< <<"Jan">>, <<"Apr">>, <<"Dec">>, <<"Foo">> >>)
           = << <<"Apr">>, <<"Dec">>, <<"Jan">>, <<"Foo">> >>
    /\ \A i, j \in DOMAIN months :
        i < j =>
            /\ months[j] \in Range(FinancialYear) =>
                   months[i] \in Range(FinancialYear)
            /\ (months[i] \in Range(FinancialYear)
                    /\ months[j] \in Range(FinancialYear)) =>
                   PlaceInYear(months[i]) < PlaceInYear(months[j])

\* The first row of the table holds a value outside the financial year, a
\* later row a month of it, and the list has the month first.
C7_Witness ==
    /\ pc = "serving"
    /\ Len(df.rows) = 2
    /\ Len(months) = 2
    /\ Field(df.columns, df.rows[1], FiscalMonth) = months[2]
    /\ months[2] \notin Range(FinancialYear)
    /\ months[1] \in Range(FinancialYear)

\* C10: no request is answered before the load has completed, and once it
\* has, no step loads again or changes the table or the four option lists.
C10_TableFrozenAfterLoad ==
    /\ [](resp # NoResp => pc = "serving")
    /\ [][pc = "serving" =>
            /\ pc' = "serving"
            /\ df' = df
            /\ quarters' = quarters
            /\ months' = months
            /\ locations' = locations
            /\ models' = models]_vars

\* A filtered export of a loaded table has been answered.
C10_Witness ==
    /\ Answered("export_excel")
    /\ NonBlank(resp.req.quarter)
    /\ Len(df.rows) = 2
    /\ Len(resp.sheet) < 4

\* The sum of column c over rows laid out as the table is; 0.0 when the
\* table has no such column.
SumOver(rows, c) ==
    IF c \in Range(df.columns)
    THEN fsum([i \in DOMAIN rows |->
                  rows[i][CHOOSE j \in DOMAIN df.columns : df.columns[j] = c]])
    ELSE Flt(0)

\* The rows a request works on: none when the table counts as empty.
Subset(req) == IF IsEmpty(df) THEN <<>> ELSE Selected(req)

CountColumns == {NoOfBilliedRos, NoOfCounterROs}

\* C3: whatever the table and the request, get_data answers without error
\* with totals whose keys are the eight numeric column names, each mapped to
\* the sum of its column over the selected rows (0 for an empty subset or
\* an absent column), the two count columns as integers.
C3_TotalsAreSums ==
    resp.op = "get_data" =>
        /\ resp.status = 200
        /\ DOMAIN resp.totals = Range(NUMERIC_COLS)
        /\ \A c \in Range(NUMERIC_COLS) :
            LET sum == SumOver(Subset(resp.req), c) IN
            IF c \in CountColumns
            THEN /\ resp.totals[c].k = "int"
                 /\ sum.k = "float"
                 /\ 2 * resp.totals[c].n = sum.n
            ELSE resp.totals[c] = sum

\* The headers of the workbook as the loader names them.
CleanHeaders == [j \in DOMAIN file.headers |-> _clean_col_name(file.headers[j])]

\* No workbook, or one without one of the four required headers.
LoadFails ==
    \/ ~file.exists
    \/ /\ ~file.corrupt
       /\ \E h \in {FiscalQuarter, FiscalMonth, Location, ModelGroup} :
              h \notin Range(CleanHeaders)

ZeroTotals ==
    [c \in Range(NUMERIC_COLS) |-> IF c \in CountColumns THEN IntV(0) ELSE Flt(0)]

\* C4: when the load fails the program serves an empty table: the four
\* option lists are empty, and get_data answers every request with no rows,
\* all-zero totals and count 0.
C4_FailedLoadServesEmpty ==
    (LoadFails /\ pc = "serving") =>
        /\ df = EmptyFrame
        /\ quarters = <<>> /\ months = <<>> /\ locations = <<>> /\ models = <<>>
        /\ resp.op = "get_filter_options" =>
               /\ resp.status = 200
               /\ resp.options = [quarters |-> <<>>, months |-> <<>>,
                                  locations |-> <<>>, models |-> <<>>]
        /\ resp.op = "get_data" =>
               /\ resp.status = 200
               /\ resp.data = <<>>
               /\ resp.count = 0
               /\ resp.totals = ZeroTotals

\* A workbook with rows but without the Model Group header was loaded and
\* get_data was asked for a quarter.
C4_Witness ==
    /\ file.exists
    /\ LoadFails
    /\ Len(file.rows) = 2
    /\ resp.op = "get_data"
    /\ NonBlank(resp.req.quarter)

\* The cells of a sheet row as the exporter writes the header, a row, the
\* totals of a subset.
HeaderCells == [j \in DOMAIN df.columns |-> Str(df.columns[j])]

TotalCells(rows) ==
    [j \in DOMAIN df.columns |->
        IF df.columns[j] = FiscalQuarter THEN Str(<<"TOTAL">>)
        ELSE IF df.columns[j] \in CountColumns
        THEN int_of(SumOver(rows, df.columns[j]))
        ELSE IF df.columns[j] \in Range(NUMERIC_COLS)
        THEN SumOver(rows, df.columns[j])
        ELSE Str(<<>>)]

IsBlankRow(row) == \A j \in DOMAIN row : row[j] = None

\* A row as a sheet shows it: a missing value is an empty cell.
Written(row) ==
    [j \in DOMAIN row |->
        CASE row[j].k = "nan" -> Str(<<>>)
          [] row[j].k = "inf" -> Str(<<"inf">>)
          [] OTHER -> row[j]]

\* C5 (as stated): the exported sheet is the header row, the n selected
\* rows, one blank row, then the totals row as row n + 3, which is the row
\* formatted as the totals row.
C5_BlankRowBeforeTotals ==
    Answered("export_excel") =>
        LET rows == Selected(resp.req)
            n == Len(rows)
        IN /\ Len(resp.sheet) = n + 3
           /\ resp.sheet[1] = HeaderCells
           /\ \A i \in 1..n : resp.sheet[i + 1] = Written(rows[i])
           /\ IsBlankRow(resp.sheet[n + 2])
           /\ resp.sheet[n + 3] = Written(TotalCells(rows))
           /\ resp.styles[n + 3] = "totals"

\* C5 (amended): the exported sheet is the header row, the n selected rows,
\* then at once the totals row as row n + 2, which is the row formatted as
\* the totals row; there is no blank row.
C5_TotalsRowFollowsData ==
    Answered("export_excel") =>
        LET rows == Selected(resp.req)
            n == Len(rows)
        IN /\ Len(resp.sheet) = n + 2
           /\ resp.sheet[1] = HeaderCells
           /\ \A i \in 1..n : resp.sheet[i + 1] = Written(rows[i])
           /\ resp.sheet[n + 2] = Written(TotalCells(rows))
           /\ Len(resp.styles) = n + 2
           /\ \A i \in 1..(n + 2) : resp.styles[i] = "totals" <=> i = n + 2

\* Two rows were exported.
C5_Witness ==
    /\ Answered("export_excel")
    /\ Len(Selected(resp.req)) = 2
    /\ NonBlank(resp.req.quarter)

OptionLists ==
    { <<quarters, FiscalQuarter>>, <<months, FiscalMonth>>,
      <<locations, Location>>, <<models, ModelGroup>> }

\* C6: after a successful load each option list holds exactly the distinct
\* non-blank values of its column, the missing-value placeholder left out,
\* each once; quarters, locations and models in ascending order.
C6_OptionsDistinctNonBlank ==
    (pc = "serving" /\ df.columns # <<>>) =>
        /\ \A p \in OptionLists :
            /\ \A i, j \in DOMAIN p[1] : i # j => p[1][i] # p[1][j]
            /\ <<>> \notin Range(p[1])
            /\ <<"nan">> \notin Range(p[1])
            /\ Range(p[1]) =
                   { Field(df.columns, df.rows[r], p[2]) : r \in DOMAIN df.rows }
                       \ { <<>>, <<"nan">> }
        /\ \A l \in {quarters, locations, models} :
            \A i \in DOMAIN l : i > 1 => StrLess(l[i - 1], l[i])

\* The twelve visible columns in the fixed order.
VisibleColumns == required \o NUMERIC_COLS

\* C8 (as stated): every row get_data returns and every row of the exported
\* sheet has exactly the twelve visible columns in the fixed order, whatever
\* the workbook's column order and extra columns; count is the number of
\* rows returned.
C8_FixedTwelveColumns ==
    /\ Answered("get_data") =>
           /\ resp.count = Len(resp.data)
           /\ resp.data # <<>> =>
                  /\ resp.columns = VisibleColumns
                  /\ \A i \in DOMAIN resp.data :
                         Len(resp.data[i]) = Len(VisibleColumns)
    /\ Answered("export_excel") =>
           /\ resp.sheet[1] = [j \in DOMAIN VisibleColumns |-> Str(VisibleColumns[j])]
           /\ \A i \in DOMAIN resp.sheet :
                  Len(resp.sheet[i]) = Len(VisibleColumns)

\* C8 (amended): every row get_data returns and every row of the exported
\* sheet has the columns of the workbook, each under its cleaned header, in
\* the workbook's order; count is the number of rows returned.
C8_WorkbookColumns ==
    /\ Answered("get_data") =>
           /\ resp.count = Len(resp.data)
           /\ resp.data # <<>> =>
                  /\ resp.columns = CleanHeaders
                  /\ \A i \in DOMAIN resp.data :
                         Len(resp.data[i]) = Len(file.headers)
    /\ Answered("export_excel") =>
           /\ resp.sheet[1] = [j \in DOMAIN CleanHeaders |-> Str(CleanHeaders[j])]
           /\ \A i \in DOMAIN resp.sheet :
                  Len(resp.sheet[i]) = Len(file.headers)

\* A workbook with another column order and one more column was loaded and
\* get_data returned one of its two rows.
C8_Witness ==
    /\ Answered("get_data")
    /\ CleanHeaders # VisibleColumns
    /\ Len(file.headers) > Len(VisibleColumns)
    /\ Len(df.rows) = 2
    /\ resp.count = 1

\* C9: of the requests only export_excel fails; it is rejected exactly when
\* the table is empty, and unless the writer faults it succeeds on a
\* non-empty table whatever the request; get_data and get_filter_options
\* never fail.
C9_OnlyExportFails ==
    resp.op # "none" =>
        /\ resp.op # "export_excel" => resp.status = 200
        /\ resp.op = "export_excel" =>
               /\ resp.status = 400 <=> IsEmpty(df)
               /\ (~IsEmpty(df) /\ ~resp.fault) => resp.status = 200

====
